---------------------------- MODULE Spec2Model ----------------------------
(***************************************************************************)
(* Model of hikmahealth/utils/misc.py: the stateless helpers               *)
(*   to_snake_case, convert_dict_keys_to_snake_case, get_uuid_version,     *)
(*   is_valid_uuid, safe_json_dumps, safe_json_loads, convert_operator.    *)
(*                                                                         *)
(* Every helper is a pure function of its arguments (plus a logged warning *)
(* on the JSON failure paths).  Each one is an operator computed the way    *)
(* the Python code computes it; a call is one action that takes the        *)
(* arguments chosen in the initial state and stores what the call returns, *)
(* the exception that escapes it, and the warnings it logs.                *)
(*                                                                         *)
(* Python strings are sequences of one-character strings.  Python values   *)
(* are records with a type tag t (see the section on values).              *)
(***************************************************************************)
EXTENDS Integers, Sequences, FiniteSets, TLC

VARIABLES
    fn,      \* the function being called
    args,    \* its arguments
    pc,      \* "call" before the call, "done" after it
    ret,     \* the value returned (NoValue before the call and when it raised)
    raised,  \* the exception that escaped the call, "none" when it returned
    logged   \* number of logging.warning calls made

vars == <<fn, args, pc, ret, raised, logged>>

(***************************************************************************)
(* Strings                                                                 *)
(***************************************************************************)
\* All sequences over S of length at most n.
SeqsUpTo(S, n) == UNION {[1..k -> S] : k \in 0..n}

StartsWith(s, p) == Len(s) >= Len(p) /\ SubSeq(s, 1, Len(p)) = p

(***************************************************************************)
(* Python values.  One record shape for every value, so that any two       *)
(* values can be compared:                                                 *)
(*   t      "none" | "bool" | "int" | "str" | "list" | "dict" | "object"   *)
(*          | "cyclic" (a list that contains itself)                       *)
(*   n      the number of an int (1 = True, 0 = False for a bool)          *)
(*   s      the characters of a str                                        *)
(*   elems  the elements of a list                                         *)
(*   items  the items of a dict, in insertion order: records [k, v] with   *)
(*          k the characters of the (string) key                           *)
(***************************************************************************)
PyNone == [t |-> "none", n |-> 0, s |-> <<>>, elems |-> <<>>, items |-> <<>>]
PyBool(b) == [t |-> "bool", n |-> IF b THEN 1 ELSE 0, s |-> <<>>, elems |-> <<>>, items |-> <<>>]
PyInt(k) == [t |-> "int", n |-> k, s |-> <<>>, elems |-> <<>>, items |-> <<>>]
PyStr(str) == [t |-> "str", n |-> 0, s |-> str, elems |-> <<>>, items |-> <<>>]
PyList(es) == [t |-> "list", n |-> 0, s |-> <<>>, elems |-> es, items |-> <<>>]
PyDict(its) == [t |-> "dict", n |-> 0, s |-> <<>>, elems |-> <<>>, items |-> its]
PyObject == [t |-> "object", n |-> 0, s |-> <<>>, elems |-> <<>>, items |-> <<>>]
PyCyclic == [t |-> "cyclic", n |-> 0, s |-> <<>>, elems |-> <<>>, items |-> <<>>]

\* What ret holds while no value has been returned.
NoValue == [t |-> "unset", n |-> 0, s |-> <<>>, elems |-> <<>>, items |-> <<>>]

\* Python truthiness: `not v` is Falsy(v).
Falsy(v) ==
    \/ v.t = "none"
    \/ v.t \in {"bool", "int"} /\ v.n = 0
    \/ v.t = "str" /\ v.s = <<>>
    \/ v.t = "list" /\ v.elems = <<>>
    \/ v.t = "dict" /\ v.items = <<>>

\* The outcome of a call: a returned value, or an exception, and the warnings logged.
Returned(v, warnings) == [val |-> v, exc |-> "none", log |-> warnings]
Raised(e) == [val |-> NoValue, exc |-> e, log |-> 0]

(***************************************************************************)
(* Character classes of str.isupper / str.islower / str.isalnum / lower    *)
(* on the characters the model draws from.                                 *)
(***************************************************************************)
UpperChars == {"A", "B"}
LowerChars == {"a", "b"}
DigitChars == {"1"}
OtherChars == {"_", "-"}
SnakeAlphabet == UpperChars \cup LowerChars \cup DigitChars \cup OtherChars

isupper(c) == c \in UpperChars
islower(c) == c \in LowerChars
isalnum(c) == c \in UpperChars \cup LowerChars \cup DigitChars

lower(c) == CASE c = "A" -> "a" [] c = "B" -> "b" [] OTHER -> c

(***************************************************************************)
(* to_snake_case                                                           *)
(***************************************************************************)
\* The condition of the if: string positions are 1-based here, so Python's
\* i is i - 1 and next_char exists when i < Len(string).
NeedsUnderscoreNoLookahead(string, i) ==
    isupper(string[i]) /\ isalnum(string[i - 1]) /\ ~isupper(string[i - 1])

NeedsUnderscore(string, i) ==
    /\ isupper(string[i])
    /\ \/ isalnum(string[i - 1]) /\ ~isupper(string[i - 1])
       \/ i < Len(string) /\ islower(string[i + 1])

\* if result[-1] != '_': result.append('_')
AppendUnderscoreUnchecked(result) == Append(result, "_")

AppendUnderscore(result) ==
    IF result[Len(result)] # "_" THEN Append(result, "_") ELSE result

\* The for loop from position i on, result being the list built so far.
RECURSIVE SnakeLoop(_, _, _)
SnakeLoop(string, i, result) ==
    IF i > Len(string)
    THEN result
    ELSE LET r1 == IF NeedsUnderscore(string, i) THEN AppendUnderscore(result) ELSE result
         IN  SnakeLoop(string, i + 1, Append(r1, lower(string[i])))

\* to_snake_case(string) for a str or None argument; ''.join(result) is the
\* list itself, a string being the sequence of its characters.
to_snake_case(string) ==
    IF Falsy(string)
    THEN string
    ELSE PyStr(SnakeLoop(string.s, 2, <<lower(string.s[1])>>))

MaxLen == 4

SnakeInputs == {PyStr(s) : s \in SeqsUpTo(SnakeAlphabet, MaxLen)} \cup {PyNone}

InitSnake ==
    /\ fn = "to_snake_case"
    /\ args \in {[string |-> v] : v \in SnakeInputs}
    /\ pc = "call"
    /\ ret = NoValue
    /\ raised = "none"
    /\ logged = 0

CallToSnakeCase ==
    /\ pc = "call"
    /\ fn = "to_snake_case"
    /\ ret' = to_snake_case(args.string)
    /\ pc' = "done"
    /\ UNCHANGED <<fn, args, raised, logged>>

NextSnake == CallToSnakeCase

SpecSnake == InitSnake /\ [][NextSnake]_vars

----------------------------------------------------------------------------
(***************************************************************************)
(* Claims about to_snake_case                                              *)
(***************************************************************************)
\* Position i of s gets an underscore before it: stated on the input alone.
\* The output built so far ends in an underscore exactly when s[i-1] is one,
\* because whatever is inserted is followed at once by a lower-cased letter.
InsertsBefore(s, i) ==
    /\ i >= 2
    /\ isupper(s[i])
    /\ \/ isalnum(s[i - 1]) /\ ~isupper(s[i - 1])
       \/ i < Len(s) /\ islower(s[i + 1])
    /\ s[i - 1] # "_"

RECURSIVE Concat(_)
Concat(ss) == IF ss = <<>> THEN <<>> ELSE Head(ss) \o Concat(Tail(ss))

\* The lower-casing of s, character by character, with the underscores put in.
SnakeExpected(s) ==
    Concat([i \in 1..Len(s) |->
              IF InsertsBefore(s, i) THEN <<"_", lower(s[i])>> ELSE <<lower(s[i])>>])

SnakeDone == pc = "done" /\ fn = "to_snake_case"

\* C1: for a non-empty string the result is the lower-cased input with one
\* underscore before exactly the positions i >= 1 whose character is uppercase
\* and follows a non-uppercase alphanumeric or precedes a lowercase letter,
\* unless the output so far ends in an underscore; nothing is put before
\* position 0; an empty or None input comes back unchanged.
C1_SnakeCaseRule ==
    SnakeDone =>
        /\ raised = "none"
        /\ IF Falsy(args.string)
           THEN ret = args.string
           ELSE /\ ret = PyStr(SnakeExpected(args.string.s))
                /\ ret.s[1] = lower(args.string.s[1])

\* A call where one underscore is inserted and another is suppressed.
C1_Witness ==
    /\ SnakeDone
    /\ args.string.t = "str"
    /\ \E i, j \in 2..Len(args.string.s) :
          /\ InsertsBefore(args.string.s, i)
          /\ NeedsUnderscore(args.string.s, j) /\ args.string.s[j - 1] = "_"
    /\ Len(ret.s) = Len(args.string.s) + 1

\* The positions of the output that are not the copy of an input character:
\* the output is read against the input from the left.
RECURSIVE InsertedAt(_, _, _, _)
InsertedAt(in, out, i, j) ==
    IF j > Len(out)
    THEN {}
    ELSE IF i <= Len(in) /\ out[j] = lower(in[i])
         THEN InsertedAt(in, out, i + 1, j + 1)
         ELSE {j} \cup InsertedAt(in, out, i, j + 1)

HasDoubleUnderscore(s) == \E k \in 1..(Len(s) - 1) : s[k] = "_" /\ s[k + 1] = "_"

\* C9: every inserted underscore follows a character that is not an
\* underscore and is followed by a letter; so an input without two adjacent
\* underscores gives an output without them, and no inserted underscore is
\* the first or the last character of the output.
C9_NoDoubleUnderscore ==
    (SnakeDone /\ args.string.t = "str") =>
        LET in == args.string.s
            out == ret.s
            ins == InsertedAt(in, out, 1, 1)
        IN  /\ \A j \in ins :
                 /\ out[j] = "_"
                 /\ j > 1 /\ out[j - 1] # "_"
                 /\ j < Len(out) /\ islower(out[j + 1])
            /\ ~HasDoubleUnderscore(in) => ~HasDoubleUnderscore(out)

\* A call whose input has an underscore right before a word boundary.
C9_Witness ==
    /\ SnakeDone
    /\ args.string.t = "str"
    /\ \E j \in 2..Len(args.string.s) :
          NeedsUnderscore(args.string.s, j) /\ args.string.s[j - 1] = "_"
    /\ InsertedAt(args.string.s, ret.s, 1, 1) # {}
    /\ ~HasDoubleUnderscore(ret.s)

----------------------------------------------------------------------------
(***************************************************************************)
(* convert_dict_keys_to_snake_case                                         *)
(***************************************************************************)
HasKey(items, k) == \E i \in DOMAIN items : items[i].k = k

\* The value stored under key k (k is a key of items).
Lookup(items, k) == items[CHOOSE i \in DOMAIN items : items[i].k = k].v

\* One key: value of the dict comprehension: a key already present keeps
\* its place and takes the new value, a new key is added at the end.
DictSetFirstWins(items, k, v) ==
    IF HasKey(items, k) THEN items ELSE Append(items, [k |-> k, v |-> v])

DictSet(items, k, v) ==
    IF HasKey(items, k)
    THEN [i \in DOMAIN items |-> IF items[i].k = k THEN [k |-> k, v |-> v] ELSE items[i]]
    ELSE Append(items, [k |-> k, v |-> v])

\* The comprehension over data.items(), acc being the dict built so far.
RECURSIVE convert_dict_keys_to_snake_case(_), SnakeItems(_, _)
SnakeItems(items, acc) ==
    IF items = <<>>
    THEN acc
    ELSE SnakeItems(Tail(items),
                    DictSet(acc,
                            to_snake_case(PyStr(Head(items).k)).s,
                            convert_dict_keys_to_snake_case(Head(items).v)))

convert_dict_keys_to_snake_case(data) ==
    IF data.t # "dict"
    THEN data
    ELSE PyDict(SnakeItems(data.items, <<>>))

\* Keys: "aB" and "a_b" both convert to "a_b"; "Ab" converts to "ab".
DictKeys == {<<"a", "B">>, <<"a", "_", "b">>, <<"A", "b">>, <<"b">>}

\* Dicts of at most n items with distinct keys from K and values from V.
DictsOf(K, V, n) ==
    {PyDict(its) : its \in {q \in SeqsUpTo([k : K, v : V], n) :
                               \A i, j \in DOMAIN q : i # j => q[i].k # q[j].k}}

InnerDicts ==
    { PyDict(<<>>),
      PyDict(<<[k |-> <<"a", "B">>, v |-> PyInt(1)]>>),
      PyDict(<<[k |-> <<"a", "B">>, v |-> PyInt(1)], [k |-> <<"a", "_", "b">>, v |-> PyInt(2)]>>),
      PyDict(<<[k |-> <<"b">>, v |-> PyDict(<<[k |-> <<"a", "B">>, v |-> PyInt(1)]>>)]>>) }

DictValues ==
    {PyInt(1), PyInt(2), PyNone, PyList(<<PyDict(<<[k |-> <<"a", "B">>, v |-> PyInt(1)]>>)>>)}
        \cup InnerDicts

MaxItems == 2

DictInputs ==
    DictsOf(DictKeys, DictValues, MaxItems)
        \cup {PyInt(1), PyNone, PyStr(<<"a", "B">>), PyList(<<PyInt(1), PyInt(2)>>),
              PyList(<<PyDict(<<[k |-> <<"a", "B">>, v |-> PyInt(1)]>>)>>)}

InitDict ==
    /\ fn = "convert_dict_keys_to_snake_case"
    /\ args \in {[data |-> v] : v \in DictInputs}
    /\ pc = "call"
    /\ ret = NoValue
    /\ raised = "none"
    /\ logged = 0

CallConvertDictKeys ==
    /\ pc = "call"
    /\ fn = "convert_dict_keys_to_snake_case"
    /\ ret' = convert_dict_keys_to_snake_case(args.data)
    /\ pc' = "done"
    /\ UNCHANGED <<fn, args, raised, logged>>

NextDict == CallConvertDictKeys

SpecDict == InitDict /\ [][NextDict]_vars

----------------------------------------------------------------------------
(***************************************************************************)
(* Claims about convert_dict_keys_to_snake_case                            *)
(***************************************************************************)
SnakeKey(k) == to_snake_case(PyStr(k)).s

\* conv: the same transformation on a mapping, the identity on anything else.
Conv(v) == IF v.t = "dict" THEN convert_dict_keys_to_snake_case(v) ELSE v

DictDone == pc = "done" /\ fn = "convert_dict_keys_to_snake_case"

\* The last item of d whose key converts to the same key as d[i]'s.
LastWithSameKey(items, i) ==
    CHOOSE j \in DOMAIN items :
        /\ SnakeKey(items[j].k) = SnakeKey(items[i].k)
        /\ \A m \in DOMAIN items : SnakeKey(items[m].k) = SnakeKey(items[i].k) => m <= j

Collides(items) ==
    \E i, j \in DOMAIN items : i # j /\ SnakeKey(items[i].k) = SnakeKey(items[j].k)

\* C2 as stated: for every key k of the mapping d, the result holds conv(d[k])
\* under to_snake_case(k), so that no input key's value is lost, also when
\* two input keys convert to the same key; a non-mapping is returned as is.
C2_Original ==
    DictDone =>
        IF args.data.t = "dict"
        THEN /\ ret.t = "dict"
             /\ \A i \in DOMAIN args.data.items :
                    /\ HasKey(ret.items, SnakeKey(args.data.items[i].k))
                    /\ Lookup(ret.items, SnakeKey(args.data.items[i].k))
                         = Conv(args.data.items[i].v)
        ELSE ret = args.data

\* C2 amended: for every key k of the mapping d, the result holds under
\* to_snake_case(k) the value conv(d[k']) of the last key k' of d, in
\* iteration order, that converts to the same key as k; the result has one
\* item per converted key and no other; a non-mapping is returned as is.
C2_LastKeyWins ==
    DictDone =>
        /\ raised = "none"
        /\ IF args.data.t = "dict"
           THEN LET d == args.data.items
                    r == ret.items
                IN  /\ ret.t = "dict"
                    /\ \A i \in DOMAIN d :
                           /\ HasKey(r, SnakeKey(d[i].k))
                           /\ Lookup(r, SnakeKey(d[i].k)) = Conv(d[LastWithSameKey(d, i)].v)
                    /\ \A i \in DOMAIN r : \E j \in DOMAIN d : r[i].k = SnakeKey(d[j].k)
                    /\ \A i, j \in DOMAIN r : i # j => r[i].k # r[j].k
                    /\ ~Collides(d) => Len(r) = Len(d)
           ELSE ret = args.data

\* A call on a mapping with two keys that convert to the same key and with
\* a nested mapping and a list among its values.
C2_Witness ==
    /\ DictDone
    /\ args.data.t = "dict"
    /\ Collides(args.data.items)
    /\ Len(ret.items) = 1
    /\ \E i \in DOMAIN args.data.items : args.data.items[i].v.t = "dict"
    /\ \E i \in DOMAIN args.data.items : args.data.items[i].v.t = "list"

----------------------------------------------------------------------------
(***************************************************************************)
(* uuid.UUID(hex, version=version) and str(UUID), as called on lines 101,  *)
(* 105, 138 and 141.  The 128-bit integer is kept as its 32 hexadecimal    *)
(* digits (numbers 0..15), most significant first.                         *)
(*                                                                         *)
(* The inputs are drawn from hexadecimal digits of both cases, 'g', '-',   *)
(* '{', '}' and the prefixes 'urn:' and 'uuid:'; on these int(hex, 16)     *)
(* fails exactly when a character is not a hexadecimal digit.              *)
(***************************************************************************)
HexLower == <<"0", "1", "2", "3", "4", "5", "6", "7", "8", "9", "a", "b", "c", "d", "e", "f">>
HexUpper == <<"0", "1", "2", "3", "4", "5", "6", "7", "8", "9", "A", "B", "C", "D", "E", "F">>

IsHexDigit(c) == \E i \in 1..16 : HexLower[i] = c \/ HexUpper[i] = c
HexValue(c) == (CHOOSE i \in 1..16 : HexLower[i] = c \/ HexUpper[i] = c) - 1

\* str.replace(pat, ''): the occurrences of pat, left to right, removed.
RECURSIVE Remove(_, _)
Remove(s, pat) ==
    IF Len(s) < Len(pat) THEN s
    ELSE IF StartsWith(s, pat) THEN Remove(SubSeq(s, Len(pat) + 1, Len(s)), pat)
    ELSE <<Head(s)>> \o Remove(Tail(s), pat)

\* str.strip(chars)
RECURSIVE LStrip(_, _)
LStrip(s, chars) == IF s # <<>> /\ Head(s) \in chars THEN LStrip(Tail(s), chars) ELSE s

RECURSIVE RStrip(_, _)
RStrip(s, chars) ==
    IF s # <<>> /\ s[Len(s)] \in chars THEN RStrip(SubSeq(s, 1, Len(s) - 1), chars) ELSE s

Strip(s, chars) == RStrip(LStrip(s, chars), chars)

\* The variant bits set to RFC 4122 (int &= ~(0xc000 << 48); int |= 0x8000 << 48:
\* the 17th digit keeps its two low bits and gets 10 above them) and the
\* version number set (int &= ~(0xf000 << 64); int |= version << 76: the 13th digit).
SetVariantAndVersion(digits, version) ==
    [i \in 1..32 |-> IF i = 13 THEN version
                     ELSE IF i = 17 THEN 8 + (digits[i] % 4)
                     ELSE digits[i]]

\* UUID(hex, version=version): [exc, digits]; exc is the exception raised.
\* A version outside 1..5 is illegal (the calls modelled pass none of 6, 7, 8,
\* which later CPython releases accept).
UUID(hex, version) ==
    IF hex.t = "none"
    THEN [exc |-> "TypeError", digits |-> <<>>]       \* no hex, bytes, fields or int given
    ELSE IF hex.t # "str"
    THEN [exc |-> "AttributeError", digits |-> <<>>]  \* hex.replace on a non-string
    ELSE LET h1 == Remove(Remove(hex.s, <<"u", "r", "n", ":">>), <<"u", "u", "i", "d", ":">>)
             h2 == Remove(Strip(h1, {"{", "}"}), <<"-">>)
         IN  IF Len(h2) # 32
             THEN [exc |-> "ValueError", digits |-> <<>>]
             ELSE IF \E i \in 1..32 : ~IsHexDigit(h2[i])
             THEN [exc |-> "ValueError", digits |-> <<>>]
             ELSE LET int == [i \in 1..32 |-> HexValue(h2[i])]
                  IN  IF version.t = "none"
                      THEN [exc |-> "none", digits |-> int]
                      ELSE IF ~(1 <= version.n /\ version.n <= 5)
                      THEN [exc |-> "ValueError", digits |-> <<>>]
                      ELSE [exc |-> "none", digits |-> SetVariantAndVersion(int, version.n)]

\* str(UUID): '%032x' cut 8-4-4-4-12.
UUIDStr(digits) ==
    LET hex == [i \in 1..32 |-> HexLower[digits[i] + 1]]
    IN  SubSeq(hex, 1, 8) \o <<"-">> \o SubSeq(hex, 9, 12) \o <<"-">> \o SubSeq(hex, 13, 16)
            \o <<"-">> \o SubSeq(hex, 17, 20) \o <<"-">> \o SubSeq(hex, 21, 32)

(***************************************************************************)
(* get_uuid_version, is_valid_uuid                                         *)
(***************************************************************************)
SUPPORTED_UUID_VERSIONS == <<1, 3, 4, 5>>

\* str(uuid_obj) == id
RoundTripsLoose(uuid_obj, id) == TRUE

RoundTrips(uuid_obj, id) == PyStr(UUIDStr(uuid_obj.digits)) = id

\* The for loop from the k-th supported version on.  Only ValueError is caught.
RECURSIVE VersionLoop(_, _)
VersionLoop(id, k) ==
    IF k > Len(SUPPORTED_UUID_VERSIONS)
    THEN Returned(PyNone, 0)
    ELSE LET version == SUPPORTED_UUID_VERSIONS[k]
             uuid_obj == UUID(id, PyInt(version))
         IN  IF uuid_obj.exc = "ValueError" THEN VersionLoop(id, k + 1)
             ELSE IF uuid_obj.exc # "none" THEN Raised(uuid_obj.exc)
             ELSE IF RoundTrips(uuid_obj, id) THEN Returned(PyInt(version), 0)
             ELSE VersionLoop(id, k + 1)

get_uuid_version(id) == VersionLoop(id, 1)

\* is_valid_uuid with every version taken as None.
is_valid_uuid_any_version(uuid_to_test, version) ==
    IF Falsy(uuid_to_test)
    THEN Returned(PyBool(FALSE), 0)
    ELSE LET r == get_uuid_version(uuid_to_test)
         IN  IF r.exc # "none" THEN r ELSE Returned(PyBool(r.val # PyNone), 0)

is_valid_uuid(uuid_to_test, version) ==
    IF Falsy(uuid_to_test)
    THEN Returned(PyBool(FALSE), 0)
    ELSE IF version.t = "none"
    THEN LET r == get_uuid_version(uuid_to_test)
         IN  IF r.exc # "none" THEN r ELSE Returned(PyBool(r.val # PyNone), 0)
    ELSE LET uuid_obj == UUID(uuid_to_test, version)
         IN  IF uuid_obj.exc = "ValueError" THEN Returned(PyBool(FALSE), 0)
             ELSE IF uuid_obj.exc # "none" THEN Raised(uuid_obj.exc)
             ELSE Returned(PyBool(RoundTrips(uuid_obj, uuid_to_test)), 0)

\* The candidates: 32 digits, all FillChar but the 1st, the 13th (version)
\* and the 17th (variant), written in one of several forms.
FillChar == "e"
FirstChars == {"c", "C", "g"}
VersionChars == {"0", "1", "2", "3", "4", "5", "6", "f"}
VariantChars == {"0", "7", "8", "9", "a", "b", "B", "c"}
UuidForms == {"canonical", "nodash", "braces", "urn", "short", "long", "misdashed"}

UuidBody(first, ver, var) ==
    [i \in 1..32 |-> IF i = 1 THEN first ELSE IF i = 13 THEN ver ELSE IF i = 17 THEN var ELSE FillChar]

Dashed(b) ==
    SubSeq(b, 1, 8) \o <<"-">> \o SubSeq(b, 9, 12) \o <<"-">> \o SubSeq(b, 13, 16)
        \o <<"-">> \o SubSeq(b, 17, 20) \o <<"-">> \o SubSeq(b, 21, 32)

UuidText(form, b) ==
    CASE form = "canonical" -> Dashed(b)
      [] form = "nodash" -> b
      [] form = "braces" -> <<"{">> \o Dashed(b) \o <<"}">>
      [] form = "urn" -> <<"u", "r", "n", ":", "u", "u", "i", "d", ":">> \o Dashed(b)
      [] form = "short" -> SubSeq(b, 1, 8)
      [] form = "long" -> Dashed(b) \o <<FillChar>>
      [] form = "misdashed" ->
            SubSeq(b, 1, 4) \o <<"-">> \o SubSeq(b, 5, 12) \o <<"-">> \o SubSeq(b, 13, 16)
                \o <<"-">> \o SubSeq(b, 17, 20) \o <<"-">> \o SubSeq(b, 21, 32)

UuidStrings ==
    {PyStr(UuidText(form, UuidBody(first, ver, var))) :
        form \in UuidForms, first \in FirstChars, ver \in VersionChars, var \in VariantChars}

\* What a caller may pass: a candidate string, '', None, or a value of another type.
UuidInputs == UuidStrings \cup {PyStr(<<>>), PyNone, PyInt(0), PyInt(123), PyList(<<>>)}

VersionArgs == {PyNone} \cup {PyInt(v) : v \in {0, 1, 2, 3, 4, 5, 9}}

InitUuid ==
    /\ \/ fn = "get_uuid_version" /\ args \in {[id |-> v, version |-> PyNone] : v \in UuidInputs}
       \/ fn = "is_valid_uuid"
            /\ args \in {[id |-> v, version |-> w] : v \in UuidInputs, w \in VersionArgs}
    /\ pc = "call"
    /\ ret = NoValue
    /\ raised = "none"
    /\ logged = 0

CallGetUuidVersion ==
    /\ pc = "call"
    /\ fn = "get_uuid_version"
    /\ LET r == get_uuid_version(args.id)
       IN  ret' = r.val /\ raised' = r.exc /\ logged' = logged + r.log
    /\ pc' = "done"
    /\ UNCHANGED <<fn, args>>

CallIsValidUuid ==
    /\ pc = "call"
    /\ fn = "is_valid_uuid"
    /\ LET r == is_valid_uuid(args.id, args.version)
       IN  ret' = r.val /\ raised' = r.exc /\ logged' = logged + r.log
    /\ pc' = "done"
    /\ UNCHANGED <<fn, args>>

NextUuid == CallGetUuidVersion \/ CallIsValidUuid

SpecUuid == InitUuid /\ [][NextUuid]_vars

----------------------------------------------------------------------------
(***************************************************************************)
(* Claims about get_uuid_version and is_valid_uuid                         *)
(***************************************************************************)
\* Constructing a UUID from id constrained to version v does not fail and
\* its canonical string form equals id exactly.
Matches(id, v) ==
    LET u == UUID(id, PyInt(v))
    IN  u.exc = "none" /\ PyStr(UUIDStr(u.digits)) = id

\* The first version of the order (1, 3, 4, 5) that matches.
IsFirstMatch(id, v) ==
    \E k \in 1..4 :
        /\ <<1, 3, 4, 5>>[k] = v
        /\ Matches(id, v)
        /\ \A m \in 1..(k - 1) : ~Matches(id, <<1, 3, 4, 5>>[m])

GetVersionDone == pc = "done" /\ fn = "get_uuid_version"
IsValidDone == pc = "done" /\ fn = "is_valid_uuid"

\* C3: for an input string id, get_uuid_version(id) returns v if and only
\* if v is the first of (1, 3, 4, 5) for which the UUID constrained to v is
\* constructed and its canonical string equals id; it returns None if and
\* only if no version of (1, 3, 4, 5) satisfies both.
C3_FirstMatchingVersion ==
    (GetVersionDone /\ args.id.t = "str") =>
        /\ raised = "none"
        /\ ret.t \in {"int", "none"}
        /\ \A v \in 0..9 : (ret = PyInt(v)) <=> IsFirstMatch(args.id, v)
        /\ (ret = PyNone) <=> (\A v \in {1, 3, 4, 5} : ~Matches(args.id, v))

\* A version 4 UUID in canonical form is given and 4 is returned, the
\* versions 1 and 3 having been tried first.
C3_Witness ==
    /\ GetVersionDone
    /\ args.id.t = "str"
    /\ ret = PyInt(4)
    /\ UUID(args.id, PyInt(1)).exc = "none"
    /\ ~Matches(args.id, 1)

\* C4: is_valid_uuid(c, version) is False for a falsy c whatever the version;
\* for a non-empty c and version None it is True exactly when
\* get_uuid_version(c) is not None, which is exactly when is_valid_uuid(c, v)
\* is True for some v of {1, 3, 4, 5}; for a non-empty c and a version v it
\* is True exactly when the UUID constrained to v is constructed and its
\* canonical string equals c, whatever the other versions give.
C4_IsValidUuid ==
    (IsValidDone /\ (Falsy(args.id) \/ args.id.t = "str")) =>
        /\ raised = "none"
        /\ ret.t = "bool"
        /\ Falsy(args.id) => ret = PyBool(FALSE)
        /\ (~Falsy(args.id) /\ args.version.t = "none") =>
              /\ (ret = PyBool(TRUE)) <=> (get_uuid_version(args.id).val # PyNone)
              /\ (ret = PyBool(TRUE)) <=>
                    (\E v \in {1, 3, 4, 5} : is_valid_uuid(args.id, PyInt(v)).val = PyBool(TRUE))
        /\ (~Falsy(args.id) /\ args.version.t # "none") =>
              ((ret = PyBool(TRUE)) <=>
                  LET u == UUID(args.id, args.version)
                  IN  u.exc = "none" /\ PyStr(UUIDStr(u.digits)) = args.id)

\* A version 2 UUID in canonical form is valid when version 2 is asked for,
\* although no supported version matches it.
C4_Witness ==
    /\ IsValidDone
    /\ args.id.t = "str"
    /\ args.version = PyInt(2)
    /\ ret = PyBool(TRUE)
    /\ get_uuid_version(args.id).val = PyNone

\* C5: whatever the input value (a string of any content, None, a value of
\* another type) and the version argument, get_uuid_version returns a
\* version or None, is_valid_uuid returns a boolean, and no exception
\* escapes either function.
C5_ValidatorsNeverRaise ==
    (pc = "done" /\ fn \in {"get_uuid_version", "is_valid_uuid"}) =>
        /\ raised = "none"
        /\ fn = "get_uuid_version" => ret.t \in {"int", "none"}
        /\ fn = "is_valid_uuid" => ret.t = "bool"

----------------------------------------------------------------------------
(***************************************************************************)
(* json.dumps(data) and json.loads(data), as called on lines 160, 191 and  *)
(* 197, with their default options.                                        *)
(*                                                                         *)
(* Both recurse through nested lists and dicts, and CPython raises         *)
(* RecursionError once the nesting passes the interpreter's recursion      *)
(* limit (sys.getrecursionlimit(), 1000 unless changed).  The model keeps  *)
(* the mechanism and scales the limit down to RecursionLimit.              *)
(*                                                                         *)
(* The documents parsed are made of the characters                         *)
(*     " \ [ ] { } , : space 1 a n u l t r e                               *)
(* so the numbers are integers written with the digit 1 and the literals   *)
(* are null and true.                                                      *)
(***************************************************************************)
RecursionLimit == 3

Quote == "\""
Backslash == "\\"
Whitespace == {" ", "\n", "\t", "\r"}

\* What json produces: exc is the exception raised ("none": val is the
\* value decoded, s the text encoded, end the position after the value).
JsonOk(v, str, e) == [exc |-> "none", val |-> v, s |-> str, end |-> e]
JsonErr(e) == [exc |-> e, val |-> NoValue, s |-> <<>>, end |-> 0]

\* JSONDecodeError is a ValueError; RecursionError is a RuntimeError.
IsInstance(exc, classes) ==
    exc \in classes \/ (exc = "JSONDecodeError" /\ "ValueError" \in classes)

RECURSIVE IntStr(_)
IntStr(k) ==
    IF k < 0 THEN <<"-">> \o IntStr(0 - k)
    ELSE IF k < 10 THEN <<HexLower[k + 1]>>
    ELSE IntStr(k \div 10) \o <<HexLower[(k % 10) + 1]>>

\* The body of an encoded string (ensure_ascii escapes).
RECURSIVE EscapeStr(_)
EscapeStr(str) ==
    IF str = <<>> THEN <<>>
    ELSE (CASE Head(str) = Quote -> <<Backslash, Quote>>
            [] Head(str) = Backslash -> <<Backslash, Backslash>>
            [] Head(str) = "\n" -> <<Backslash, "n">>
            [] OTHER -> <<Head(str)>>) \o EscapeStr(Tail(str))

\* The encoder: o at nesting depth `depth`.  An object of another type is a
\* TypeError, a container that contains itself a ValueError.
RECURSIVE Encode(_, _), EncodeElems(_, _, _), EncodeItems(_, _, _)
Encode(o, depth) ==
    CASE o.t = "none" -> JsonOk(NoValue, <<"n", "u", "l", "l">>, 0)
      [] o.t = "bool" ->
            JsonOk(NoValue, IF o.n = 1 THEN <<"t", "r", "u", "e">> ELSE <<"f", "a", "l", "s", "e">>, 0)
      [] o.t = "int" -> JsonOk(NoValue, IntStr(o.n), 0)
      [] o.t = "str" -> JsonOk(NoValue, <<Quote>> \o EscapeStr(o.s) \o <<Quote>>, 0)
      [] o.t = "cyclic" -> JsonErr("ValueError")
      [] o.t = "list" ->
            IF depth + 1 > RecursionLimit THEN JsonErr("RecursionError")
            ELSE IF o.elems = <<>> THEN JsonOk(NoValue, <<"[", "]">>, 0)
            ELSE EncodeElems(o.elems, depth + 1, <<"[">>)
      [] o.t = "dict" ->
            IF depth + 1 > RecursionLimit THEN JsonErr("RecursionError")
            ELSE IF o.items = <<>> THEN JsonOk(NoValue, <<"{", "}">>, 0)
            ELSE EncodeItems(o.items, depth + 1, <<"{">>)
      [] OTHER -> JsonErr("TypeError")

EncodeElems(es, depth, acc) ==
    LET r == Encode(Head(es), depth)
    IN  IF r.exc # "none" THEN r
        ELSE IF Len(es) = 1 THEN JsonOk(NoValue, acc \o r.s \o <<"]">>, 0)
        ELSE EncodeElems(Tail(es), depth, acc \o r.s \o <<",", " ">>)

EncodeItems(its, depth, acc) ==
    LET r == Encode(Head(its).v, depth)
        key == <<Quote>> \o EscapeStr(Head(its).k) \o <<Quote, ":", " ">>
    IN  IF r.exc # "none" THEN r
        ELSE IF Len(its) = 1 THEN JsonOk(NoValue, acc \o key \o r.s \o <<"}">>, 0)
        ELSE EncodeItems(Tail(its), depth, acc \o key \o r.s \o <<",", " ">>)

json_dumps(data) == Encode(data, 0)

\* The decoder.
RECURSIVE SkipWs(_, _)
SkipWs(s, i) == IF i <= Len(s) /\ s[i] \in Whitespace THEN SkipWs(s, i + 1) ELSE i

At(s, i, c) == i <= Len(s) /\ s[i] = c

Literal(s, i, word) == i + Len(word) - 1 <= Len(s) /\ SubSeq(s, i, i + Len(word) - 1) = word

\* The character a backslash escape stands for (the escapes written with
\* the characters above), "" for an invalid escape.
Unescape(c) ==
    CASE c = Quote -> Quote
      [] c = Backslash -> Backslash
      [] c = "n" -> "\n"
      [] c = "t" -> "\t"
      [] c = "r" -> "\r"
      [] OTHER -> ""

\* The characters of a string from position i (after the opening quote) on.
\* \uXXXX needs four hexadecimal digits: none of the documents has them.
RECURSIVE ScanString(_, _, _)
ScanString(s, i, acc) ==
    IF i > Len(s) THEN JsonErr("JSONDecodeError")
    ELSE IF s[i] = Quote THEN JsonOk(PyStr(acc), <<>>, i + 1)
    ELSE IF s[i] = Backslash
    THEN IF i + 1 > Len(s) \/ Unescape(s[i + 1]) = ""
         THEN JsonErr("JSONDecodeError")
         ELSE ScanString(s, i + 2, Append(acc, Unescape(s[i + 1])))
    ELSE IF s[i] \in {"\n", "\t", "\r"} THEN JsonErr("JSONDecodeError")
    ELSE ScanString(s, i + 1, Append(acc, s[i]))

\* The integer whose digits start at position i, k being the value so far.
RECURSIVE ScanDigits(_, _, _)
ScanDigits(s, i, k) ==
    IF i <= Len(s) /\ s[i] \in {"0", "1", "2", "3", "4", "5", "6", "7", "8", "9"}
    THEN ScanDigits(s, i + 1, 10 * k + HexValue(s[i]))
    ELSE JsonOk(PyInt(k), <<>>, i)

RECURSIVE ParseValue(_, _, _), ParseElements(_, _, _, _), ParseMembers(_, _, _, _)
ParseValue(s, i, depth) ==
    IF i > Len(s) THEN JsonErr("JSONDecodeError")
    ELSE CASE s[i] = Quote -> ScanString(s, i + 1, <<>>)
           [] s[i] = "[" ->
                 IF depth + 1 > RecursionLimit THEN JsonErr("RecursionError")
                 ELSE IF At(s, SkipWs(s, i + 1), "]")
                 THEN JsonOk(PyList(<<>>), <<>>, SkipWs(s, i + 1) + 1)
                 ELSE ParseElements(s, SkipWs(s, i + 1), depth + 1, <<>>)
           [] s[i] = "{" ->
                 IF depth + 1 > RecursionLimit THEN JsonErr("RecursionError")
                 ELSE IF At(s, SkipWs(s, i + 1), "}")
                 THEN JsonOk(PyDict(<<>>), <<>>, SkipWs(s, i + 1) + 1)
                 ELSE ParseMembers(s, SkipWs(s, i + 1), depth + 1, <<>>)
           [] s[i] = "n" ->
                 IF Literal(s, i, <<"n", "u", "l", "l">>)
                 THEN JsonOk(PyNone, <<>>, i + 4) ELSE JsonErr("JSONDecodeError")
           [] s[i] = "t" ->
                 IF Literal(s, i, <<"t", "r", "u", "e">>)
                 THEN JsonOk(PyBool(TRUE), <<>>, i + 4) ELSE JsonErr("JSONDecodeError")
           [] s[i] \in {"1", "2", "3", "4", "5", "6", "7", "8", "9"} -> ScanDigits(s, i, 0)
           [] OTHER -> JsonErr("JSONDecodeError")

\* The elements of an array: a value is expected at position i.
ParseElements(s, i, depth, acc) ==
    LET r == ParseValue(s, i, depth)
        j == SkipWs(s, r.end)
    IN  IF r.exc # "none" THEN r
        ELSE IF At(s, j, "]") THEN JsonOk(PyList(Append(acc, r.val)), <<>>, j + 1)
        ELSE IF At(s, j, ",") THEN ParseElements(s, SkipWs(s, j + 1), depth, Append(acc, r.val))
        ELSE JsonErr("JSONDecodeError")

\* The members of an object: a key is expected at position i.  A key that
\* comes again replaces the value of the first.
ParseMembers(s, i, depth, acc) ==
    IF ~At(s, i, Quote) THEN JsonErr("JSONDecodeError")
    ELSE LET key == ScanString(s, i + 1, <<>>)
         IN  IF key.exc # "none" THEN key
             ELSE IF ~At(s, SkipWs(s, key.end), ":") THEN JsonErr("JSONDecodeError")
             ELSE LET r == ParseValue(s, SkipWs(s, SkipWs(s, key.end) + 1), depth)
                      j == SkipWs(s, r.end)
                      acc2 == DictSet(acc, key.val.s, r.val)
                  IN  IF r.exc # "none" THEN r
                      ELSE IF At(s, j, "}") THEN JsonOk(PyDict(acc2), <<>>, j + 1)
                      ELSE IF At(s, j, ",") THEN ParseMembers(s, SkipWs(s, j + 1), depth, acc2)
                      ELSE JsonErr("JSONDecodeError")

\* json.loads of a str: one value, white space around it, nothing after.
json_loads(s) ==
    LET r == ParseValue(s, SkipWs(s, 1), 0)
    IN  IF r.exc # "none" THEN r
        ELSE IF SkipWs(s, r.end) <= Len(s) THEN JsonErr("JSONDecodeError")
        ELSE r

(***************************************************************************)
(* safe_json_dumps, safe_json_loads                                        *)
(***************************************************************************)
DumpsCaught == {"TypeError", "ValueError", "OverflowError"}

safe_json_dumps(data, default) ==
    LET default1 == IF default.t = "none" THEN PyStr(<<"{", "}">>) ELSE default
        output == json_dumps(data)
    IN  IF output.exc = "none" THEN Returned(PyStr(output.s), 0)
        ELSE IF IsInstance(output.exc, DumpsCaught) THEN Returned(default1, 1)
        ELSE Raised(output.exc)

LoadsCaught == {"TypeError", "ValueError", "JSONDecodeError"}

\* isinstance(data, (dict, list))
IsDictOrListNotEmpty(data) == data.t \in {"dict", "list", "cyclic"} /\ ~Falsy(data)

IsDictOrList(data) == data.t \in {"dict", "list", "cyclic"}

\* result.startswith('{') or result.startswith('[')
LooksLikeJson(result) == StartsWith(result, <<"{">>) \/ StartsWith(result, <<"[">>)
\* The inner try: the second decode of the string the first decode gave.
SecondDecode(result, default) ==
    IF LooksLikeJson(result.s)
    THEN LET second_result == json_loads(result.s)
         IN  IF second_result.exc = "none" THEN Returned(second_result.val, 0)
             ELSE IF IsInstance(second_result.exc, LoadsCaught) THEN Returned(result, 0)
             ELSE Raised(second_result.exc)
    ELSE Returned(result, 0)

safe_json_loads(data, default, attempt_double_decode) ==
    IF data.t = "none" THEN Returned(default, 0)
    ELSE IF IsDictOrList(data) THEN Returned(data, 0)
    ELSE IF data.t # "str" THEN Returned(default, 0)
    ELSE LET result == json_loads(data.s)
         IN  IF result.exc # "none"
             THEN IF IsInstance(result.exc, LoadsCaught) THEN Returned(default, 1)
                  ELSE Raised(result.exc)
             ELSE IF attempt_double_decode /\ result.val.t = "str"
             THEN SecondDecode(result.val, default)
             ELSE Returned(result.val, 0)

\* v inside k lists.
RECURSIVE Nest(_, _)
Nest(v, k) == IF k = 0 THEN v ELSE PyList(<<Nest(v, k - 1)>>)

MaxElems == 2

DumpsScalars == {PyNone, PyInt(1), PyBool(TRUE), PyStr(<<"a", Quote>>), PyObject, PyCyclic}

\* What is serialized: scalars, serializable or not, lists and dicts of
\* them, and lists nested up to one level past the recursion limit.
DumpsData ==
    DumpsScalars
        \cup {PyList(es) : es \in SeqsUpTo(DumpsScalars, MaxElems)}
        \cup {PyDict(<<[k |-> <<"a">>, v |-> v]>>) : v \in DumpsScalars}
        \cup {PyDict(<<[k |-> <<"a">>, v |-> v], [k |-> <<"l">>, v |-> w]>>) :
                 v \in DumpsScalars, w \in {PyInt(1), PyObject, PyList(<<PyInt(1)>>)}}
        \cup {Nest(v, k) : v \in {PyInt(1), PyObject}, k \in 1..(RecursionLimit + 1)}

DumpsDefaults == {PyNone, PyStr(<<"[", "]">>)}

JsonMaxLen == 4

ExhaustiveJsonChars == {Quote, Backslash, "[", "]", "{", "}", "1", "a"}

\* The documents of the specification's examples and a few more.
PickedDocuments ==
    { <<"{", Quote, "a", Quote, ":", "1", "}">>,
      <<"{", Quote, "a", Quote, ":", " ", "1", "}">>,
      <<Quote, "{", Backslash, Quote, "a", Backslash, Quote, ":", "1", "}", Quote>>,
      <<Quote, "{", Backslash, Quote, "a", Backslash, Quote, ":", "}", Quote>>,
      <<"n", "u", "l", "l">>,
      <<"n", "u", "l">>,
      <<"t", "r", "u", "e">>,
      <<Quote, "n", "u", "l", "l", Quote>>,
      <<" ", "[", "1", ",", " ", "1", "]", " ">>,
      <<"[", "1", ",", "]">>,
      <<"{", Quote, "a", Quote, ":", "1", ",", Quote, "l", Quote, ":", "n", "u", "l", "l", ",",
        Quote, "a", Quote, ":", "[", "]", "}">>,
      <<Quote, "[", Quote, ",", Quote, "]", Quote>>,
      <<Quote, Backslash, "n", Quote>> }

\* Arrays opened one level past the recursion limit: bare, closed, and as
\* the text of a JSON string.
DeepDocuments ==
    LET open == [i \in 1..(RecursionLimit + 1) |-> "["]
        close == [i \in 1..(RecursionLimit + 1) |-> "]"]
    IN  {open, open \o close, <<Quote>> \o open \o <<Quote>>, <<Quote>> \o open \o close \o <<Quote>>}

LoadsStrings == SeqsUpTo(ExhaustiveJsonChars, JsonMaxLen) \cup PickedDocuments \cup DeepDocuments

LoadsData ==
    {PyStr(s) : s \in LoadsStrings}
        \cup {PyNone, PyInt(0), PyInt(1), PyBool(FALSE), PyObject, PyList(<<>>), PyList(<<PyInt(1)>>),
              PyDict(<<>>), PyDict(<<[k |-> <<"a">>, v |-> PyInt(1)]>>)}

LoadsDefaults == {PyNone, PyDict(<<>>)}

InitJson ==
    /\ \/ /\ fn = "safe_json_dumps"
          /\ args \in {[data |-> v, default |-> d, attempt_double_decode |-> FALSE] :
                          v \in DumpsData, d \in DumpsDefaults}
       \/ /\ fn = "safe_json_loads"
          /\ args \in {[data |-> v, default |-> d, attempt_double_decode |-> b] :
                          v \in LoadsData, d \in LoadsDefaults, b \in BOOLEAN}
    /\ pc = "call"
    /\ ret = NoValue
    /\ raised = "none"
    /\ logged = 0

CallSafeJsonDumps ==
    /\ pc = "call"
    /\ fn = "safe_json_dumps"
    /\ LET r == safe_json_dumps(args.data, args.default)
       IN  ret' = r.val /\ raised' = r.exc /\ logged' = logged + r.log
    /\ pc' = "done"
    /\ UNCHANGED <<fn, args>>

CallSafeJsonLoads ==
    /\ pc = "call"
    /\ fn = "safe_json_loads"
    /\ LET r == safe_json_loads(args.data, args.default, args.attempt_double_decode)
       IN  ret' = r.val /\ raised' = r.exc /\ logged' = logged + r.log
    /\ pc' = "done"
    /\ UNCHANGED <<fn, args>>

NextJson == CallSafeJsonDumps \/ CallSafeJsonLoads

SpecJson == InitJson /\ [][NextJson]_vars

----------------------------------------------------------------------------
(***************************************************************************)
(* Claims about safe_json_dumps and safe_json_loads                        *)
(***************************************************************************)
DumpsDone == pc = "done" /\ fn = "safe_json_dumps"
LoadsDone == pc = "done" /\ fn = "safe_json_loads"

\* C6: safe_json_dumps returns the serialization when serializing succeeds
\* and otherwise the default ("{}" when the default is None), without
\* raising; safe_json_loads of a string that fails to parse returns the
\* default without raising; in both failures one warning is logged.
C6_FailSoft ==
    /\ DumpsDone =>
          /\ raised = "none"
          /\ IF json_dumps(args.data).exc = "none"
             THEN ret = PyStr(json_dumps(args.data).s) /\ logged = 0
             ELSE /\ ret = (IF args.default = PyNone THEN PyStr(<<"{", "}">>) ELSE args.default)
                  /\ logged = 1
    /\ (LoadsDone /\ args.data.t = "str" /\ json_loads(args.data.s).exc # "none") =>
          /\ raised = "none"
          /\ ret = args.default
          /\ logged = 1

\* C7: safe_json_loads(data, default) returns default for None, data itself
\* for a dict or a list (nothing is parsed), default for any other value
\* that is not a string, and otherwise the result of parsing the string; so
\* default comes back only for None, for a non-string that is no container
\* and for a string that does not parse, and a parsed value comes back as
\* it is, null included.
C7_LoadsDecisionOrder ==
    (LoadsDone /\ ~args.attempt_double_decode) =>
        LET data == args.data
            parsed == json_loads(data.s)
        IN  CASE data.t = "none" -> raised = "none" /\ ret = args.default /\ logged = 0
              [] data.t \in {"dict", "list"} -> raised = "none" /\ ret = data /\ logged = 0
              [] data.t # "str" -> raised = "none" /\ ret = args.default /\ logged = 0
              [] OTHER ->
                    /\ parsed.exc = "none" => raised = "none" /\ ret = parsed.val /\ logged = 0
                    /\ (parsed.exc # "none" /\ raised = "none") => ret = args.default
                    /\ (raised = "none" /\ logged = 0) => parsed.exc = "none"

\* The document null is parsed with a default that is not None: None comes back.
C7_Witness ==
    /\ LoadsDone
    /\ ~args.attempt_double_decode
    /\ args.data = PyStr(<<"n", "u", "l", "l">>)
    /\ args.default # PyNone
    /\ ret = PyNone
    /\ logged = 0

\* C10: with attempt_double_decode set and a first parse that gives a string:
\* the second parse's value is returned when the string begins with '{' or
\* '[' and parses; the first parse's string is returned, without the default
\* and without a warning, when it begins so and does not parse; and when it
\* begins otherwise, nothing is parsed again and the string is returned.
\* With attempt_double_decode unset, or a first parse that gives no string,
\* the first parse's value is returned.
C10_DoubleDecode ==
    (LoadsDone /\ args.data.t = "str" /\ json_loads(args.data.s).exc = "none") =>
        LET first == json_loads(args.data.s).val
            second == json_loads(first.s)
        IN  /\ raised = "none"
            /\ logged = 0
            /\ IF args.attempt_double_decode /\ first.t = "str"
               THEN IF LooksLikeJson(first.s)
                    THEN IF second.exc = "none" THEN ret = second.val ELSE ret = first
                    ELSE ret = first
               ELSE ret = first

----------------------------------------------------------------------------
(***************************************************************************)
(* convert_operator.  Operators are strings compared as wholes.            *)
(***************************************************************************)
\* The dict with '=' and '!=' mapped as in the commented-out lines 226, 228.
operator_map_fuzzy_equality(case_insensitive) ==
    << [k |-> "contains", v |-> IF case_insensitive THEN "ILIKE" ELSE "LIKE"],
       [k |-> "does not contain", v |-> IF case_insensitive THEN "NOT ILIKE" ELSE "NOT LIKE"],
       [k |-> "is empty", v |-> "IS NULL"],
       [k |-> "is not empty", v |-> "IS NOT NULL"],
       [k |-> "=", v |-> IF case_insensitive THEN "ILIKE" ELSE "="],
       [k |-> "!=", v |-> IF case_insensitive THEN "NOT ILIKE" ELSE "!="],
       [k |-> "<", v |-> "<"],
       [k |-> ">", v |-> ">"],
       [k |-> "<=", v |-> "<="],
       [k |-> ">=", v |-> ">="] >>

operator_map(case_insensitive) ==
    << [k |-> "contains", v |-> IF case_insensitive THEN "ILIKE" ELSE "LIKE"],
       [k |-> "does not contain", v |-> IF case_insensitive THEN "NOT ILIKE" ELSE "NOT LIKE"],
       [k |-> "is empty", v |-> "IS NULL"],
       [k |-> "is not empty", v |-> "IS NOT NULL"],
       [k |-> "=", v |-> "="],
       [k |-> "!=", v |-> "!="],
       [k |-> "<", v |-> "<"],
       [k |-> ">", v |-> ">"],
       [k |-> "<=", v |-> "<="],
       [k |-> ">=", v |-> ">="] >>

\* operator_map.get(operator, 'ILIKE' if case_insensitive else '=')
convert_operator(operator, case_insensitive) ==
    IF HasKey(operator_map(case_insensitive), operator)
    THEN Lookup(operator_map(case_insensitive), operator)
    ELSE IF case_insensitive THEN "ILIKE" ELSE "="

\* The operators passed: up to MaxPieces of these pieces put together.
OperatorPieces ==
    {"=", "!", "<", ">", " ", "is ", "not ", "empty", "contains", "Contains", "does ", "contain", "ILIKE"}

MaxPieces == 3

RECURSIVE PiecesJoined(_)
PiecesJoined(k) ==
    IF k = 0 THEN {""}
    ELSE PiecesJoined(k - 1) \cup {a \o b : a \in PiecesJoined(k - 1), b \in OperatorPieces}

InitOperator ==
    /\ fn = "convert_operator"
    /\ args \in {[operator |-> op, case_insensitive |-> ci] : op \in PiecesJoined(MaxPieces), ci \in BOOLEAN}
    /\ pc = "call"
    /\ ret = NoValue
    /\ raised = "none"
    /\ logged = 0

CallConvertOperator ==
    /\ pc = "call"
    /\ fn = "convert_operator"
    /\ ret' = convert_operator(args.operator, args.case_insensitive)
    /\ pc' = "done"
    /\ UNCHANGED <<fn, args, raised, logged>>

NextOperator == CallConvertOperator

SpecOperator == InitOperator /\ [][NextOperator]_vars

----------------------------------------------------------------------------
(***************************************************************************)
(* Claims about convert_operator                                           *)
(***************************************************************************)
PassThroughOperators == {"=", "!=", "<", ">", "<=", ">="}

TwelveSqlOperators ==
    {"ILIKE", "LIKE", "NOT ILIKE", "NOT LIKE", "IS NULL", "IS NOT NULL", "=", "!=", "<", ">", "<=", ">="}

OperatorDone == pc = "done" /\ fn = "convert_operator"

\* C8: convert_operator(op, ci) is ILIKE or LIKE for 'contains', NOT ILIKE
\* or NOT LIKE for 'does not contain' (the first when ci), IS NULL for
\* 'is empty' and IS NOT NULL for 'is not empty', the operator itself for
\* '=', '!=', '<', '>', '<=', '>=' under both flags, and for every other
\* string ILIKE when ci and '=' otherwise; so it is one of twelve fixed
\* operators.
C8_OperatorTable ==
    OperatorDone =>
        LET op == args.operator
            ci == args.case_insensitive
        IN  /\ raised = "none"
            /\ ret \in TwelveSqlOperators
            /\ ret = CASE op = "contains" -> (IF ci THEN "ILIKE" ELSE "LIKE")
                       [] op = "does not contain" -> (IF ci THEN "NOT ILIKE" ELSE "NOT LIKE")
                       [] op = "is empty" -> "IS NULL"
                       [] op = "is not empty" -> "IS NOT NULL"
                       [] op \in PassThroughOperators -> op
                       [] OTHER -> (IF ci THEN "ILIKE" ELSE "=")

\* 'Contains' is no key of the table: without case_insensitive it gives '='.
C8_Witness ==
    /\ OperatorDone
    /\ args.operator = "Contains"
    /\ ~args.case_insensitive
    /\ ret = "="

============================================================================
